---------------------------- MODULE Spec2Model ----------------------------
(***************************************************************************)
(* A model of simple_agent.py: the AdvancedAIAgent query classifier        *)
(* (analyze_query and its helpers), the mathematical responder             *)
(* (generate_mathematical_response), the dispatch of process_query and     *)
(* the command line entry point main.                                      *)
(*                                                                         *)
(* Text is modelled as a sequence of one-character strings, so that the    *)
(* substring tests (`keyword in query_lower`) and the regular expressions  *)
(* of the source are computed character by character, as Python does.      *)
(* Floating point scores are modelled as exact rationals [n, d]; the       *)
(* operands and results of the arithmetic responder are modelled by the    *)
(* value classes of section "Floating point values".                       *)
(***************************************************************************)
EXTENDS Integers, Sequences, FiniteSets, TLC

VARIABLES
    knowledge_domains,      \* self.knowledge_domains (dict, in insertion order)
    query_patterns,         \* self.query_patterns    (dict, in insertion order)
    complexity_indicators,  \* self.complexity_indicators
    argv,                   \* sys.argv[1:] of the process under observation
    pc,                     \* "ready" before the call, "done" after it; "agent" in SpecRepeat
    call,                   \* the last call made on the agent: [op, query]
    domain_scores,          \* the local domain_scores of the last analyze_query
    analysis,               \* the AnalysisResult of the last analyze_query call
    matched,                \* the numbers and operator that the last
                            \* generate_mathematical_response took from the query
    outcome,                \* what the last process_query / main call produced
    seen                    \* the first AnalysisResult observed for each query

vars == <<knowledge_domains, query_patterns, complexity_indicators,
          argv, pc, call, domain_scores, analysis, matched, outcome, seen>>

-----------------------------------------------------------------------------
(* Bounds of the model                                                     *)

\* the largest number of command line arguments taken from Vocabulary
MaxArgs == 2
\* the largest number of keywords of one domain joined into one query
MaxKeywordWords == 1
\* the largest number of calls remembered in the repeated-call specification
MaxSeen == 2

-----------------------------------------------------------------------------
(* Text                                                                    *)

UpperCase == <<"A","B","C","D","E","F","G","H","I","J","K","L","M",
               "N","O","P","Q","R","S","T","U","V","W","X","Y","Z">>
LowerCase == <<"a","b","c","d","e","f","g","h","i","j","k","l","m",
               "n","o","p","q","r","s","t","u","v","w","x","y","z">>
Digits    == <<"0","1","2","3","4","5","6","7","8","9">>

IsUpper(c) == \E i \in 1..26 : UpperCase[i] = c
IsLowerLetter(c) == \E i \in 1..26 : LowerCase[i] = c
IsDigit(c) == \E i \in 1..10 : Digits[i] = c
\* \s of the re module, restricted to the characters of the model
IsSpace(c) == c \in {" ", "\t", "\n"}
\* \w of the re module, restricted to the characters of the model
IsWordChar(c) == IsUpper(c) \/ IsLowerLetter(c) \/ IsDigit(c) \/ c = "_"

\* str.lower() on one character
LowerChar(c) ==
    IF IsUpper(c) THEN LowerCase[CHOOSE i \in 1..26 : UpperCase[i] = c] ELSE c

\* str.lower()
ToLower(s) == [i \in 1..Len(s) |-> LowerChar(s[i])]

\* s[i : i+len(w)] == w   (positions are 1-based)
OccursAt(s, w, i) ==
    /\ i >= 1
    /\ i + Len(w) - 1 <= Len(s)
    /\ \A j \in 1..Len(w) : s[i + j - 1] = w[j]

\* `w in s` on strings
Contains(s, w) == \E i \in 1..(Len(s) - Len(w) + 1) : OccursAt(s, w, i)

\* `not s.strip()`
IsBlank(s) == \A i \in 1..Len(s) : IsSpace(s[i])

\* " ".join(args)
RECURSIVE Join(_)
Join(args) ==
    IF Len(args) = 0 THEN <<>>
    ELSE IF Len(args) = 1 THEN args[1]
    ELSE args[1] \o <<" ">> \o Join(Tail(args))

\* re.search(head + ".*" + tail, s): head, then any characters but a newline,
\* then tail, the two being literal texts
SearchDotStar(s, head, tail) ==
    \E i \in 1..Len(s) :
        /\ OccursAt(s, head, i)
        /\ \E j \in (i + Len(head))..(Len(s) + 1) :
              /\ OccursAt(s, tail, j)
              /\ \A k \in (i + Len(head))..(j - 1) : s[k] # "\n"

-----------------------------------------------------------------------------
(* Rationals: the exact values of the scores and confidences               *)

RECURSIVE GCD(_, _)
GCD(a, b) == IF b = 0 THEN a ELSE GCD(b, a % b)

Abs(x) == IF x < 0 THEN -x ELSE x

Rat(n, d) ==
    LET g == GCD(Abs(n), d)
    IN  IF n = 0 THEN [n |-> 0, d |-> 1] ELSE [n |-> n \div g, d |-> d \div g]

RatAdd(a, b) == Rat(a.n * b.d + b.n * a.d, a.d * b.d)
RatLt(a, b) == a.n * b.d < b.n * a.d
RatMin(a, b) == IF RatLt(b, a) THEN b ELSE a

-----------------------------------------------------------------------------
(* The tables built by AdvancedAIAgent.__init__                            *)

KnowledgeDomains0 ==
  <<
    [domain |-> "security", keywords |-> <<
      <<"v","u","l","n","e","r","a","b","i","l","i","t","y">>,  \* vulnerability
      <<"v","u","l","n","e","r","a","b","i","l","i","t","i","e","s">>,  \* vulnerabilities
      <<"a","t","t","a","c","k">>,  \* attack
      <<"e","x","p","l","o","i","t">>,  \* exploit
      <<"p","e","n","e","t","r","a","t","i","o","n">>,  \* penetration
      <<"a","u","t","h","e","n","t","i","c","a","t","i","o","n">>,  \* authentication
      <<"a","u","t","h","o","r","i","z","a","t","i","o","n">>,  \* authorization
      <<"e","n","c","r","y","p","t","i","o","n">>,  \* encryption
      <<"c","i","p","h","e","r">>,  \* cipher
      <<"c","r","y","p","t","o","g","r","a","p","h","y">>,  \* cryptography
      <<"t","h","r","e","a","t">>,  \* threat
      <<"s","e","c","u","r","i","t","y">>,  \* security
      <<"s","e","c","u","r","e">>,  \* secure
      <<"i","n","j","e","c","t","i","o","n">>,  \* injection
      <<"x","s","s">>,  \* xss
      <<"c","s","r","f">>,  \* csrf
      <<"m","a","l","w","a","r","e">>,  \* malware
      <<"b","r","e","a","c","h">>,  \* breach
      <<"f","i","r","e","w","a","l","l">>,  \* firewall
      <<"i","n","t","r","u","s","i","o","n">>,  \* intrusion
      <<"p","h","i","s","h","i","n","g">>  \* phishing
      >>],
    [domain |-> "architecture", keywords |-> <<
      <<"s","c","a","l","a","b","l","e">>,  \* scalable
      <<"m","i","c","r","o","s","e","r","v","i","c","e","s">>,  \* microservices
      <<"d","i","s","t","r","i","b","u","t","e","d">>,  \* distributed
      <<"l","o","a","d"," ","b","a","l","a","n","c","i","n","g">>,  \* load balancing
      <<"w","e","b","s","o","c","k","e","t","s">>,  \* websockets
      <<"c","o","l","l","a","b","o","r","a","t","i","o","n">>,  \* collaboration
      <<"d","a","t","a","b","a","s","e">>,  \* database
      <<"a","p","i">>,  \* api
      <<"r","e","s","t">>,  \* rest
      <<"g","r","a","p","h","q","l">>,  \* graphql
      <<"e","v","e","n","t","-","d","r","i","v","e","n">>,  \* event-driven
      <<"s","e","r","v","e","r","l","e","s","s">>,  \* serverless
      <<"a","r","c","h","i","t","e","c","t","u","r","e">>,  \* architecture
      <<"d","e","s","i","g","n">>,  \* design
      <<"s","y","s","t","e","m">>,  \* system
      <<"i","n","t","e","g","r","a","t","i","o","n">>,  \* integration
      <<"d","e","p","l","o","y","m","e","n","t">>,  \* deployment
      <<"i","n","f","r","a","s","t","r","u","c","t","u","r","e">>,  \* infrastructure
      <<"f","r","a","m","e","w","o","r","k">>,  \* framework
      <<"d","e","v","o","p","s">>,  \* devops
      <<"p","i","p","e","l","i","n","e","s">>,  \* pipelines
      <<"m","o","n","i","t","o","r","i","n","g">>,  \* monitoring
      <<"c","l","o","u","d">>,  \* cloud
      <<"r","e","c","o","v","e","r","y">>,  \* recovery
      <<"e","r","r","o","r"," ","h","a","n","d","l","i","n","g">>  \* error handling
      >>],
    [domain |-> "optimization", keywords |-> <<
      <<"p","e","r","f","o","r","m","a","n","c","e">>,  \* performance
      <<"b","o","t","t","l","e","n","e","c","k">>,  \* bottleneck
      <<"c","o","n","c","u","r","r","e","n","t">>,  \* concurrent
      <<"p","a","r","a","l","l","e","l">>,  \* parallel
      <<"c","a","c","h","e">>,  \* cache
      <<"1","0","0","0","+">>,  \* 1000+
      <<"h","a","n","d","l","i","n","g">>,  \* handling
      <<"a","l","g","o","r","i","t","h","m">>,  \* algorithm
      <<"c","o","m","p","l","e","x","i","t","y">>,  \* complexity
      <<"e","f","f","i","c","i","e","n","t">>,  \* efficient
      <<"l","a","t","e","n","c","y">>,  \* latency
      <<"t","h","r","o","u","g","h","p","u","t">>,  \* throughput
      <<"o","p","t","i","m","i","z","e">>,  \* optimize
      <<"s","p","e","e","d">>,  \* speed
      <<"s","c","a","l","e">>,  \* scale
      <<"b","e","n","c","h","m","a","r","k">>,  \* benchmark
      <<"p","r","o","f","i","l","i","n","g">>,  \* profiling
      <<"b","o","t","t","l","e","n","e","c","k","s">>,  \* bottlenecks
      <<"o","p","t","i","m","i","z","a","t","i","o","n">>  \* optimization
      >>],
    [domain |-> "compliance", keywords |-> <<
      <<"g","d","p","r">>,  \* gdpr
      <<"c","c","p","a">>,  \* ccpa
      <<"p","r","i","v","a","c","y">>,  \* privacy
      <<"r","e","g","u","l","a","t","i","o","n">>,  \* regulation
      <<"a","u","d","i","t">>,  \* audit
      <<"g","o","v","e","r","n","a","n","c","e">>,  \* governance
      <<"b","i","a","s">>,  \* bias
      <<"f","a","i","r","n","e","s","s">>,  \* fairness
      <<"c","o","m","p","l","i","a","n","c","e">>,  \* compliance
      <<"l","e","g","a","l">>,  \* legal
      <<"d","a","t","a"," ","p","r","o","t","e","c","t","i","o","n">>,  \* data protection
      <<"c","o","n","s","e","n","t">>,  \* consent
      <<"r","e","g","u","l","a","t","o","r","y">>,  \* regulatory
      <<"e","t","h","i","c","s">>,  \* ethics
      <<"e","t","h","i","c","a","l">>,  \* ethical
      <<"r","e","s","p","o","n","s","i","b","l","e">>,  \* responsible
      <<"t","r","a","i","l","s">>,  \* trails
      <<"f","e","a","t","u","r","e","s">>  \* features
      >>],
    [domain |-> "innovation", keywords |-> <<
      <<"a","i">>,  \* ai
      <<"m","a","c","h","i","n","e"," ","l","e","a","r","n","i","n","g">>,  \* machine learning
      <<"q","u","a","n","t","u","m">>,  \* quantum
      <<"b","l","o","c","k","c","h","a","i","n">>,  \* blockchain
      <<"e","d","g","e"," ","c","o","m","p","u","t","i","n","g">>,  \* edge computing
      <<"s","e","l","f","-","i","m","p","r","o","v","i","n","g">>,  \* self-improving
      <<"i","o","t">>,  \* iot
      <<"a","r">>,  \* ar
      <<"v","r">>,  \* vr
      <<"5","g">>,  \* 5g
      <<"n","e","u","r","a","l"," ","n","e","t","w","o","r","k">>,  \* neural network
      <<"i","n","n","o","v","a","t","i","o","n">>,  \* innovation
      <<"f","u","t","u","r","e">>,  \* future
      <<"e","m","e","r","g","i","n","g">>,  \* emerging
      <<"a","d","a","p","t","i","v","e">>,  \* adaptive
      <<"l","e","a","r","n","i","n","g">>,  \* learning
      <<"g","e","n","e","r","a","t","e","s">>,  \* generates
      <<"s","c","e","n","a","r","i","o","s">>,  \* scenarios
      <<"q","u","a","n","t","u","m","-","p","o","w","e","r","e","d">>  \* quantum-powered
      >>],
    [domain |-> "business", keywords |-> <<
      <<"s","t","r","a","t","e","g","y">>,  \* strategy
      <<"m","a","r","k","e","t">>,  \* market
      <<"c","o","m","p","e","t","i","t","i","v","e">>,  \* competitive
      <<"r","e","v","e","n","u","e">>,  \* revenue
      <<"r","o","i">>,  \* roi
      <<"k","p","i">>,  \* kpi
      <<"f","r","a","m","e","w","o","r","k">>,  \* framework
      <<"s","o","l","u","t","i","o","n","s">>,  \* solutions
      <<"s","t","a","k","e","h","o","l","d","e","r">>,  \* stakeholder
      <<"b","u","s","i","n","e","s","s"," ","m","o","d","e","l">>,  \* business model
      <<"v","a","l","u","e"," ","p","r","o","p","o","s","i","t","i","o","n">>,  \* value proposition
      <<"m","o","n","e","t","i","z","a","t","i","o","n">>,  \* monetization
      <<"a","n","a","l","y","s","i","s">>,  \* analysis
      <<"c","o","m","p","a","r","e">>,  \* compare
      <<"e","x","i","s","t","i","n","g">>,  \* existing
      <<"a","d","v","a","n","t","a","g","e","s">>,  \* advantages
      <<"p","o","s","i","t","i","o","n","i","n","g">>  \* positioning
      >>]
  >>

QueryPatterns0 ==
  <<
    [domain |-> "architecture", patterns |-> <<
      [head |-> <<"d","e","s","i","g","n">>,
       tail |-> <<"a","r","c","h","i","t","e","c","t","u","r","e">>],
      [head |-> <<"d","e","s","i","g","n">>,
       tail |-> <<"s","y","s","t","e","m">>],
      [head |-> <<"w","e","b","s","o","c","k","e","t","s">>,
       tail |-> <<"c","o","l","l","a","b","o","r","a","t","i","o","n">>],
      [head |-> <<"e","r","r","o","r"," ","h","a","n","d","l","i","n","g">>,
       tail |-> <<"r","e","c","o","v","e","r","y">>],
      [head |-> <<"d","e","v","o","p","s">>,
       tail |-> <<"s","t","r","a","t","e","g","y">>],
      [head |-> <<"c","i","/","c","d">>,
       tail |-> <<"p","i","p","e","l","i","n","e","s">>],
      [head |-> <<"r","e","a","l","-","t","i","m","e">>,
       tail |-> <<"f","e","a","t","u","r","e","s">>] >>],
    [domain |-> "optimization", patterns |-> <<
      [head |-> <<"p","e","r","f","o","r","m","a","n","c","e">>,
       tail |-> <<"b","o","t","t","l","e","n","e","c","k">>],
      [head |-> <<"c","o","n","c","u","r","r","e","n","t">>,
       tail |-> <<"t","e","s","t","s">>],
      [head |-> <<"1","0","0","0","+">>,
       tail |-> <<"a","g","e","n","t","s">>],
      [head |-> <<"o","p","t","i","m","i","z","a","t","i","o","n">>,
       tail |-> <<"s","t","r","a","t","e","g","i","e","s">>] >>],
    [domain |-> "innovation", patterns |-> <<
      [head |-> <<"s","e","l","f","-","i","m","p","r","o","v","i","n","g">>,
       tail |-> <<"s","y","s","t","e","m">>],
      [head |-> <<"q","u","a","n","t","u","m">>,
       tail |-> <<"a","g","e","n","t","s">>],
      [head |-> <<"a","d","a","p","t","i","v","e">>,
       tail |-> <<"l","e","a","r","n","i","n","g">>] >>],
    [domain |-> "business", patterns |-> <<
      [head |-> <<"c","o","m","p","e","t","i","t","i","v","e">>,
       tail |-> <<"a","n","a","l","y","s","i","s">>],
      [head |-> <<"m","a","r","k","e","t">>,
       tail |-> <<"p","o","s","i","t","i","o","n","i","n","g">>],
      [head |-> <<"c","o","m","p","a","r","e">>,
       tail |-> <<"f","r","a","m","e","w","o","r","k">>] >>]
  >>

ComplexityIndicators0 ==
  [
    basic |-> <<
      <<"w","h","a","t">>,  \* what
      <<"h","o","w">>,  \* how
      <<"s","i","m","p","l","e">>,  \* simple
      <<"b","a","s","i","c">>,  \* basic
      <<"i","n","t","r","o","d","u","c","t","i","o","n">>  \* introduction
      >>,
    intermediate |-> <<
      <<"a","n","a","l","y","z","e">>,  \* analyze
      <<"c","o","m","p","a","r","e">>,  \* compare
      <<"d","e","s","i","g","n">>,  \* design
      <<"i","m","p","l","e","m","e","n","t">>,  \* implement
      <<"s","t","r","a","t","e","g","y">>  \* strategy
      >>,
    advanced |-> <<
      <<"a","r","c","h","i","t","e","c","t">>,  \* architect
      <<"o","p","t","i","m","i","z","e">>,  \* optimize
      <<"i","n","t","e","g","r","a","t","e">>,  \* integrate
      <<"c","o","m","p","r","e","h","e","n","s","i","v","e">>,  \* comprehensive
      <<"s","o","p","h","i","s","t","i","c","a","t","e","d">>  \* sophisticated
      >>,
    expert |-> <<
      <<"q","u","a","n","t","u","m">>,  \* quantum
      <<"d","i","s","t","r","i","b","u","t","e","d">>,  \* distributed
      <<"c","o","n","c","u","r","r","e","n","t">>,  \* concurrent
      <<"e","n","t","e","r","p","r","i","s","e">>,  \* enterprise
      <<"m","u","l","t","i","-","d","o","m","a","i","n">>  \* multi-domain
      >>
  ]

-----------------------------------------------------------------------------
(* The constants of the scoring formula                                    *)

\* `if max_score < 0.2`
MathThreshold == [n |-> 1, d |-> 5]
\* `min(0.95, ...)` and the confidence of the mathematical branches
ConfidenceCap == [n |-> 19, d |-> 20]
MathConfidence == [n |-> 19, d |-> 20]
\* the confidence of the general fallback
GeneralConfidence == [n |-> 7, d |-> 10]
\* `len(query) > 200` and `len(query) > 100` in _assess_complexity
LongQuery == 200
MediumQuery == 100

\* class QueryType(Enum)
QueryType ==
    {"MATHEMATICAL", "REASONING", "CREATIVE", "TECHNICAL", "ETHICAL",
     "STRATEGIC", "ARCHITECTURAL", "SECURITY", "OPTIMIZATION", "INTEGRATION",
     "COMPLIANCE", "INNOVATION", "GENERAL"}

-----------------------------------------------------------------------------
(* The classifier: analyze_query and its helpers                           *)

\* sum(1 for keyword in keywords if keyword in query_lower)
KeywordHits(keywords, query_lower) ==
    Cardinality({i \in 1..Len(keywords) : Contains(query_lower, keywords[i])})

\* the keyword loop with `if score >= 0` for `if score > 0`
KeywordScoresAll(query_lower) ==
    [i \in 1..Len(knowledge_domains) |->
       [domain |-> knowledge_domains[i].domain,
        score  |-> Rat(KeywordHits(knowledge_domains[i].keywords, query_lower),
                       Len(knowledge_domains[i].keywords))]]

\* the keyword loop of analyze_query: domain_scores after it, as the
\* sequence of its items in insertion order
KeywordScores(query_lower) ==
    LET all == [i \in 1..Len(knowledge_domains) |->
                  [domain |-> knowledge_domains[i].domain,
                   hits   |-> KeywordHits(knowledge_domains[i].keywords, query_lower),
                   len    |-> Len(knowledge_domains[i].keywords)]]
        hit == SelectSeq(all, LAMBDA e : e.hits > 0)
    IN  [i \in 1..Len(hit) |->
           [domain |-> hit[i].domain, score |-> Rat(hit[i].hits, hit[i].len)]]

\* sum(1 for pattern in patterns if re.search(pattern, query_lower))
PatternMatches(patterns, query_lower) ==
    Cardinality({i \in 1..Len(patterns) :
                    SearchDotStar(query_lower, patterns[i].head, patterns[i].tail)})

\* pattern_bonus = pattern_matches * 0.3
PatternBonus(pattern_matches) == Rat(3 * pattern_matches, 10)

\* the bonus stored in place of the score: domain_scores[domain] = pattern_bonus
AddBonusReplacing(scores, domain, bonus) ==
    IF \E i \in 1..Len(scores) : scores[i].domain = domain
    THEN [i \in 1..Len(scores) |->
            IF scores[i].domain = domain
            THEN [domain |-> domain, score |-> bonus]
            ELSE scores[i]]
    ELSE Append(scores, [domain |-> domain, score |-> bonus])

\* domain_scores[domain] = domain_scores.get(domain, 0) + pattern_bonus
AddBonus(scores, domain, bonus) ==
    IF \E i \in 1..Len(scores) : scores[i].domain = domain
    THEN [i \in 1..Len(scores) |->
            IF scores[i].domain = domain
            THEN [domain |-> domain, score |-> RatAdd(scores[i].score, bonus)]
            ELSE scores[i]]
    ELSE Append(scores, [domain |-> domain, score |-> RatAdd(Rat(0, 1), bonus)])

\* the pattern loop of analyze_query, from the k-th entry of query_patterns on
RECURSIVE PatternScores(_, _, _)
PatternScores(scores, query_lower, k) ==
    IF k > Len(query_patterns) THEN scores
    ELSE LET pattern_matches ==
                 PatternMatches(query_patterns[k].patterns, query_lower)
         IN  PatternScores(
                 IF pattern_matches > 0
                 THEN AddBonus(scores, query_patterns[k].domain,
                               PatternBonus(pattern_matches))
                 ELSE scores,
                 query_lower, k + 1)

\* domain_scores when both loops are done
DomainScores(query) ==
    PatternScores(KeywordScores(ToLower(query)), ToLower(query), 1)

\* a max that keeps the last of the items with the highest score
PrimaryDomainLast(scores) ==
    LET i == CHOOSE i \in 1..Len(scores) :
                 /\ \A j \in 1..Len(scores) : ~RatLt(scores[i].score, scores[j].score)
                 /\ \A j \in (i + 1)..Len(scores) :
                       RatLt(scores[j].score, scores[i].score)
    IN  scores[i]

\* max(domain_scores, key=domain_scores.get): the first item, in insertion
\* order, that no other item exceeds
PrimaryDomain(scores) ==
    LET i == CHOOSE i \in 1..Len(scores) :
                 /\ \A j \in 1..Len(scores) : ~RatLt(scores[i].score, scores[j].score)
                 /\ \A j \in 1..(i - 1) : RatLt(scores[j].score, scores[i].score)
    IN  scores[i]

\* r'\d+\s*[\+\-\*/\^]\s*\d+' and r'\d+\s*(plus|minus|times|divided by)\s*\d+':
\* a digit, white space, one of the operator texts, white space, a digit
OperatorChars == {"+", "-", "*", "/", "^"}
IsOperatorChar(c) == c \in OperatorChars

RECURSIVE SkipSpaces(_, _)
SkipSpaces(s, i) ==
    IF i <= Len(s) /\ IsSpace(s[i]) THEN SkipSpaces(s, i + 1) ELSE i

SearchInfix(s, operators) ==
    \E i \in 1..Len(s) :
        /\ IsDigit(s[i])
        /\ \E o \in operators :
              \* \s* may stop before any of the white space that follows
              \E p \in (i + 1)..SkipSpaces(s, i + 1) :
                 /\ OccursAt(s, o, p)
                 /\ LET e == SkipSpaces(s, p + Len(o))
                    IN  \E q \in (p + Len(o))..e : q <= Len(s) /\ IsDigit(s[q])

ArithmeticOperators == {<<"+">>, <<"-">>, <<"*">>, <<"/">>, <<"^">>}
WrittenOperators ==
    {<<"p","l","u","s">>, <<"m","i","n","u","s">>, <<"t","i","m","e","s">>,
     <<"d","i","v","i","d","e","d"," ","b","y">>}

\* r'\b(?:sqrt|log|sin|cos|tan|exp|factorial)\b'
MathFunctions ==
    {<<"s","q","r","t">>, <<"l","o","g">>, <<"s","i","n">>, <<"c","o","s">>,
     <<"t","a","n">>, <<"e","x","p">>,
     <<"f","a","c","t","o","r","i","a","l">>}

\* re.search(r'\b' + w + r'\b', s) for a text w made of word characters
SearchWord(s, w) ==
    \E i \in 1..(Len(s) - Len(w) + 1) :
        /\ OccursAt(s, w, i)
        /\ (i = 1 \/ ~IsWordChar(s[i - 1]))
        /\ (i + Len(w) > Len(s) \/ ~IsWordChar(s[i + Len(w)]))

\* r'calculate|compute|solve|equation|formula'
MathKeywords ==
    {<<"c","a","l","c","u","l","a","t","e">>, <<"c","o","m","p","u","t","e">>,
     <<"s","o","l","v","e">>, <<"e","q","u","a","t","i","o","n">>,
     <<"f","o","r","m","u","l","a">>}

\* r'percentage|percent|%|ratio|proportion'
StatisticalTerms ==
    {<<"p","e","r","c","e","n","t","a","g","e">>,
     <<"p","e","r","c","e","n","t">>, <<"%">>, <<"r","a","t","i","o">>,
     <<"p","r","o","p","o","r","t","i","o","n">>}

\* _is_mathematical
is_mathematical(query) ==
    LET q == ToLower(query)
    IN  \/ SearchInfix(q, ArithmeticOperators)
        \/ \E w \in MathFunctions : SearchWord(q, w)
        \/ \E w \in MathKeywords : Contains(q, w)
        \/ SearchInfix(q, WrittenOperators)
        \/ \E w \in StatisticalTerms : Contains(q, w)

\* the mapping without its "business" entry
map_domain_to_type_no_business(domain) ==
    CASE domain = "security"     -> "SECURITY"
      [] domain = "architecture" -> "ARCHITECTURAL"
      [] domain = "optimization" -> "OPTIMIZATION"
      [] domain = "compliance"   -> "COMPLIANCE"
      [] domain = "innovation"   -> "INNOVATION"
      [] OTHER                   -> "TECHNICAL"

\* _map_domain_to_type
map_domain_to_type(domain) ==
    CASE domain = "security"     -> "SECURITY"
      [] domain = "architecture" -> "ARCHITECTURAL"
      [] domain = "optimization" -> "OPTIMIZATION"
      [] domain = "compliance"   -> "COMPLIANCE"
      [] domain = "innovation"   -> "INNOVATION"
      [] domain = "business"     -> "STRATEGIC"
      [] OTHER                   -> "TECHNICAL"

\* the levels tried from the lowest up
ComplexityOrderAscending == <<"basic", "intermediate", "advanced", "expert">>

\* the order in which _assess_complexity tries the levels
ComplexityOrder == <<"expert", "advanced", "intermediate", "basic">>

\* any(indicator in query_lower for indicator in self.complexity_indicators[level])
HasIndicator(query_lower, level) ==
    \E i \in 1..Len(complexity_indicators[level]) :
        Contains(query_lower, complexity_indicators[level][i])

\* _assess_complexity
assess_complexity(query) ==
    LET query_lower == ToLower(query)
        found == {k \in 1..Len(ComplexityOrder) :
                     HasIndicator(query_lower, ComplexityOrder[k])}
    IN  IF found # {}
        THEN ComplexityOrder[CHOOSE k \in found : \A m \in found : k <= m]
        ELSE IF Len(query) > LongQuery THEN "advanced"
        ELSE IF Len(query) > MediumQuery THEN "intermediate"
        ELSE "basic"

\* f"{max_score:.2f}": the score in hundredths, rounded to the nearest
Hundredths(r) == (200 * r.n + r.d) \div (2 * r.d)

MathReasoning ==
    [text |-> "Detected mathematical expression or calculation request",
     domain |-> "", score |-> 0]
DomainReasoning(primary) ==
    [text |-> "Domain analysis identified (score)",
     domain |-> primary.domain, score |-> Hundredths(primary.score)]
GeneralReasoning ==
    [text |-> "Domain analysis identified", domain |-> "general", score |-> 0]

\* AnalysisResult(query_type, confidence, reasoning, complexity_level)
AnalysisResult(query_type, confidence, reasoning, complexity_level) ==
    [query_type |-> query_type, confidence |-> confidence,
     reasoning |-> reasoning, complexity_level |-> complexity_level]

\* the confidence without its cap: max_score * 2
DomainConfidenceUncapped(max_score) == Rat(2 * max_score.n, max_score.d)

\* confidence = min(0.95, max_score * 2)
DomainConfidence(max_score) ==
    RatMin(ConfidenceCap, Rat(2 * max_score.n, max_score.d))

\* the threshold test with `max_score <= 0.2` for `max_score < 0.2`
WeakMatchInclusive(max_score) == ~RatLt(MathThreshold, max_score)

\* max_score < 0.2
WeakMatch(max_score) == RatLt(max_score, MathThreshold)

\* analyze_query from the point where both loops are done
AnalyzeScores(scores, query) ==
    IF Len(scores) > 0
    THEN LET primary == PrimaryDomain(scores)
             max_score == primary.score
         IN  IF WeakMatch(max_score) /\ is_mathematical(query)
             THEN AnalysisResult("MATHEMATICAL", MathConfidence,
                                 MathReasoning, assess_complexity(query))
             ELSE AnalysisResult(map_domain_to_type(primary.domain),
                                 DomainConfidence(max_score),
                                 DomainReasoning(primary),
                                 assess_complexity(query))
    ELSE IF is_mathematical(query)
    THEN AnalysisResult("MATHEMATICAL", MathConfidence,
                        MathReasoning, assess_complexity(query))
    ELSE AnalysisResult("GENERAL", GeneralConfidence,
                        GeneralReasoning, assess_complexity(query))

\* analyze_query: its local domain_scores and the AnalysisResult it returns
analyze_query(query) ==
    LET scores == DomainScores(query)
    IN  [domain_scores |-> scores, result |-> AnalyzeScores(scores, query)]

-----------------------------------------------------------------------------
(* Floating point values                                                   *)
(*                                                                         *)
(* A Python float is modelled by one of the classes                        *)
(*   "fin"     the exact rational n/d, when |n| and d are at most          *)
(*             MaxTracked (the rounding error of the double, far below     *)
(*             the 0.001 tolerance of _verify_calculation, is left out);   *)
(*   "finite"  a finite double whose value the model does not track;       *)
(*   "inf", "-inf", "nan"   the IEEE special values;                       *)
(*   "str"     the text "undefined (division by zero)" (not a float).      *)
(* The operands of the responder come from ParseFloat, which yields "fin"  *)
(* or "inf" on the literals of the model; the operations are defined on    *)
(* these two classes only.                                                 *)

\* the largest numerator and denominator of a tracked value
MaxTracked == 30000
\* 2.0 ** 1024 does not fit a double: sys.float_info.max_exp
FloatMaxExp == 1024
\* a literal with more digits than sys.float_info.max (309) parses to inf
FloatMaxDigits == 309
\* the first digits of 2**1024 - 2**970, from which a 309 digit literal
\* rounds to inf
FloatInfDigits == <<1,7,9,7,6,9,3,1,3,4,8,6,2,3,1,5,8,0,7,9>>

Fin(n, d) == [k |-> "fin", n |-> n, d |-> d]
FinU   == [k |-> "finite", n |-> 0, d |-> 1]
Inf    == [k |-> "inf",    n |-> 0, d |-> 1]
NegInf == [k |-> "-inf",   n |-> 0, d |-> 1]
NaN    == [k |-> "nan",    n |-> 0, d |-> 1]
DivisionByZeroText == [k |-> "str", n |-> 0, d |-> 1]
NoValue == [k |-> "none", n |-> 0, d |-> 1]
\* the exceptions that an operation on floats may raise
OverflowError == [k |-> "OverflowError", n |-> 0, d |-> 1]
ZeroDivisionError == [k |-> "ZeroDivisionError", n |-> 0, d |-> 1]
IsException(v) == v.k \in {"OverflowError", "ZeroDivisionError"}

\* the value n/d (d > 0) as a model value
Track(n, d) ==
    LET r == Rat(n, d)
    IN  IF Abs(r.n) > MaxTracked \/ r.d > MaxTracked THEN FinU
        ELSE Fin(r.n, r.d)

IsZero(x) == x.k = "fin" /\ x.n = 0

DigitValue(c) == (CHOOSE i \in 1..10 : Digits[i] = c) - 1

\* the number written by a sequence of digits, or cap + 1 when it exceeds cap
RECURSIVE NatCapped(_, _, _)
NatCapped(digits, acc, cap) ==
    IF Len(digits) = 0 \/ acc > cap THEN (IF acc > cap THEN cap + 1 ELSE acc)
    ELSE NatCapped(Tail(digits), acc * 10 + DigitValue(Head(digits)), cap)

\* acc * b ** e for naturals b >= 1, or cap + 1 when it exceeds cap
RECURSIVE PowCapped(_, _, _, _)
PowCapped(b, e, acc, cap) ==
    IF e = 0 \/ b = 1 \/ acc > cap THEN (IF acc > cap THEN cap + 1 ELSE acc)
    ELSE PowCapped(b, e - 1, acc * b, cap)

RECURSIVE StripZeros(_)
StripZeros(digits) ==
    IF Len(digits) > 0 /\ Head(digits) = "0" THEN StripZeros(Tail(digits))
    ELSE digits

\* the digits s[1..k] compared, digit by digit, with FloatInfDigits
RECURSIVE ReachesInf(_, _)
ReachesInf(digits, k) ==
    IF k > Len(FloatInfDigits) \/ k > Len(digits) THEN TRUE
    ELSE IF DigitValue(digits[k]) > FloatInfDigits[k] THEN TRUE
    ELSE IF DigitValue(digits[k]) < FloatInfDigits[k] THEN FALSE
    ELSE ReachesInf(digits, k + 1)

\* float(literal) for a literal matched by \d+(?:\.\d+)?
ParseFloat(literal) ==
    LET dots == {i \in 1..Len(literal) : literal[i] = "."}
        dot  == IF dots = {} THEN Len(literal) + 1 ELSE CHOOSE i \in dots : TRUE
        ip   == StripZeros(SubSeq(literal, 1, dot - 1))
        fp   == SubSeq(literal, dot + 1, Len(literal))
        n    == NatCapped(ip \o fp, 0, MaxTracked)
        d    == PowCapped(10, Len(fp), 1, MaxTracked)
    IN  IF Len(ip) > FloatMaxDigits THEN Inf
        ELSE IF Len(ip) = FloatMaxDigits
        THEN (IF ReachesInf(ip, 1) THEN Inf ELSE FinU)
        ELSE IF n > MaxTracked \/ d > MaxTracked THEN FinU
        ELSE Track(n, d)

\* floor(log2(m)) for m >= 1
RECURSIVE Lg(_)
Lg(m) == IF m <= 1 THEN 0 ELSE 1 + Lg(m \div 2)

IsPowerOfTwo(m) == PowCapped(2, Lg(m), 1, m) = m

\* x + y
FloatAdd(x, y) ==
    CASE x.k = "fin" /\ y.k = "fin" -> Track(x.n * y.d + y.n * x.d, x.d * y.d)
      [] x.k = "inf" /\ y.k \in {"fin", "inf"} -> Inf
      [] x.k = "fin" /\ y.k = "inf" -> Inf

\* x - y
FloatSub(x, y) ==
    CASE x.k = "fin" /\ y.k = "fin" -> Track(x.n * y.d - y.n * x.d, x.d * y.d)
      [] x.k = "inf" /\ y.k = "fin" -> Inf
      [] x.k = "fin" /\ y.k = "inf" -> NegInf
      [] x.k = "inf" /\ y.k = "inf" -> NaN

\* x * y
FloatMul(x, y) ==
    CASE x.k = "fin" /\ y.k = "fin" -> Track(x.n * y.n, x.d * y.d)
      [] x.k = "inf" /\ y.k = "fin" -> IF IsZero(y) THEN NaN ELSE Inf
      [] x.k = "fin" /\ y.k = "inf" -> IF IsZero(x) THEN NaN ELSE Inf
      [] x.k = "inf" /\ y.k = "inf" -> Inf

\* x / y for y != 0
FloatDiv(x, y) ==
    CASE x.k = "fin" /\ y.k = "fin" -> Track(x.n * y.d, x.d * y.n)
      [] x.k = "inf" /\ y.k = "fin" -> Inf
      [] x.k = "fin" /\ y.k = "inf" -> Fin(0, 1)
      [] x.k = "inf" /\ y.k = "inf" -> NaN

\* x ** y: the set of results the model allows, OverflowError being the
\* exception that float.__pow__ raises when the result does not fit a double
FloatPow(x, y) ==
    CASE IsZero(y) -> {Fin(1, 1)}
      [] ~IsZero(y) /\ x.k = "inf" -> {Inf}
      [] ~IsZero(y) /\ x.k = "fin" /\ y.k = "inf" ->
            IF x.n > x.d THEN {Inf}
            ELSE IF x.n = x.d THEN {Fin(1, 1)} ELSE {Fin(0, 1)}
      [] ~IsZero(y) /\ x.k = "fin" /\ y.k = "fin" ->
            IF x.n = 0 THEN {Fin(0, 1)}
            ELSE IF x.n = x.d THEN {Fin(1, 1)}
            ELSE IF x.n < x.d THEN
                \* 0 < x < 1: the result lies in (0, 1)
                IF y.d = 1 /\ PowCapped(x.d, y.n, 1, MaxTracked) <= MaxTracked
                THEN {Fin(PowCapped(x.n, y.n, 1, MaxTracked),
                          PowCapped(x.d, y.n, 1, MaxTracked))}
                ELSE {FinU}
            ELSE IF /\ y.d = 1
                    /\ PowCapped(x.n, y.n, 1, MaxTracked) <= MaxTracked
                    /\ PowCapped(x.d, y.n, 1, MaxTracked) <= MaxTracked
            THEN {Fin(PowCapped(x.n, y.n, 1, MaxTracked),
                      PowCapped(x.d, y.n, 1, MaxTracked))}
            ELSE LET fx == x.n \div x.d
                     cx == (x.n + x.d - 1) \div x.d
                     fy == y.n \div y.d
                     cy == (y.n + y.d - 1) \div y.d
                     \* 2 ** lo <= x ** y < 2 ** hi
                     lo == Lg(fx) * fy
                     hi == (Lg(cx) + 1) * cy
                 IN  IF x.d = 1 /\ y.d = 1 /\ IsPowerOfTwo(x.n)
                     THEN (IF Lg(x.n) * y.n >= FloatMaxExp
                           THEN {OverflowError} ELSE {FinU})
                     ELSE IF lo >= FloatMaxExp THEN {OverflowError}
                     ELSE IF hi < FloatMaxExp THEN {FinU}
                     ELSE {FinU, OverflowError}

\* abs(a - b) < 0.001 on floats, where a and b are results of the same
\* expression when neither is tracked
AbsDiffBelowTolerance(a, b) ==
    CASE a.k = "fin" /\ b.k = "fin" ->
            Abs(a.n * b.d - b.n * a.d) <= (a.d * b.d - 1) \div 1000
      [] a.k = "finite" /\ b.k = "finite" -> TRUE
      [] OTHER -> FALSE

-----------------------------------------------------------------------------
(* The mathematical responder                                              *)

\* the last index of the run of digits that starts at i
DigitRunEnd(s, i) ==
    CHOOSE e \in i..Len(s) :
        /\ e = Len(s) \/ ~IsDigit(s[e + 1])
        /\ \A j \in i..e : IsDigit(s[j])

\* the last index of the longest text matching \d+(?:\.\d+)? from i on
NumberEnd(s, i) ==
    LET e == DigitRunEnd(s, i)
    IN  IF e + 2 <= Len(s) /\ s[e + 1] = "." /\ IsDigit(s[e + 2])
        THEN DigitRunEnd(s, e + 2)
        ELSE e

\* whether (\d+(?:\.\d+)?)\s*([\+\-\*/\^])\s*(\d+(?:\.\d+)?) matches from i on.
\* Only the first digit of a run is tried: from a later digit of the run the
\* pattern meets the same text after the run, and the leftmost match wins.
ArithmeticAt(s, i) ==
    /\ IsDigit(s[i])
    /\ (i = 1 \/ ~IsDigit(s[i - 1]))
    /\ LET p == SkipSpaces(s, NumberEnd(s, i) + 1)
       IN  /\ p <= Len(s)
           /\ IsOperatorChar(s[p])
           /\ LET q == SkipSpaces(s, p + 1)
              IN  q <= Len(s) /\ IsDigit(s[q])

NoMatch == [found |-> FALSE, num1 |-> <<>>, operator |-> "", num2 |-> <<>>]

\* re.search(<the arithmetic pattern>, query): the groups of the leftmost match
ArithmeticGroups(s, i, e, p, q) ==
    [found |-> TRUE, num1 |-> SubSeq(s, i, e), operator |-> s[p],
     num2 |-> SubSeq(s, q, NumberEnd(s, q))]
ArithmeticFromOperator(s, i, e, p) ==
    ArithmeticGroups(s, i, e, p, SkipSpaces(s, p + 1))
ArithmeticFrom(s, i, e) ==
    ArithmeticFromOperator(s, i, e, SkipSpaces(s, e + 1))
FirstOf(starts) == CHOOSE i \in starts : \A j \in starts : i <= j
ArithmeticAmong(s, starts) ==
    IF starts = {} THEN NoMatch
    ELSE ArithmeticFrom(s, FirstOf(starts), NumberEnd(s, FirstOf(starts)))
ArithmeticMatch(s) ==
    ArithmeticAmong(s, {i \in 1..Len(s) : ArithmeticAt(s, i)})

PercentWords == {<<"p","e","r","c","e","n","t">>, <<"%">>}
OfWord == <<"o","f">>

\* whether (\d+(?:\.\d+)?)\s*(?:percent|%)\s*of\s*(\d+(?:\.\d+)?) matches from i on
\* (tried, as above, from the first digit of a run)
PercentAt(s, i) ==
    /\ IsDigit(s[i])
    /\ (i = 1 \/ ~IsDigit(s[i - 1]))
    /\ LET p == SkipSpaces(s, NumberEnd(s, i) + 1)
       IN  \E w \in PercentWords :
              /\ OccursAt(s, w, p)
              /\ LET o == SkipSpaces(s, p + Len(w))
                 IN  /\ OccursAt(s, OfWord, o)
                     /\ LET q == SkipSpaces(s, o + Len(OfWord))
                        IN  q <= Len(s) /\ IsDigit(s[q])

\* re.search(<the percentage pattern>, query.lower())
PercentGroups(s, i, e, q) ==
    [found |-> TRUE, num1 |-> SubSeq(s, i, e), operator |-> "%",
     num2 |-> SubSeq(s, q, NumberEnd(s, q))]
PercentFromOf(s, i, e, o) ==
    PercentGroups(s, i, e, SkipSpaces(s, o + Len(OfWord)))
PercentFromWord(s, i, e, p, w) ==
    PercentFromOf(s, i, e, SkipSpaces(s, p + Len(w)))
PercentFromSign(s, i, e, p) ==
    PercentFromWord(s, i, e, p, CHOOSE w \in PercentWords : OccursAt(s, w, p))
PercentFrom(s, i, e) == PercentFromSign(s, i, e, SkipSpaces(s, e + 1))
PercentAmong(s, starts) ==
    IF starts = {} THEN NoMatch
    ELSE PercentFrom(s, FirstOf(starts), NumberEnd(s, FirstOf(starts)))
PercentMatch(s) ==
    PercentAmong(s, {i \in 1..Len(s) : PercentAt(s, i)})

\* the operations with a division lambda that lacks its `if y != 0` guard
OperationsUnguarded(operator, x, y) ==
    CASE operator = "+" -> {FloatAdd(x, y)}
      [] operator = "-" -> {FloatSub(x, y)}
      [] operator = "*" -> {FloatMul(x, y)}
      [] operator = "/" -> IF ~IsZero(y) THEN {FloatDiv(x, y)}
                           ELSE {ZeroDivisionError}
      [] operator = "^" -> FloatPow(x, y)

\* operations[operator](num1, num2): the set of results
Operations(operator, x, y) ==
    CASE operator = "+" -> {FloatAdd(x, y)}
      [] operator = "-" -> {FloatSub(x, y)}
      [] operator = "*" -> {FloatMul(x, y)}
      [] operator = "/" -> IF ~IsZero(y) THEN {FloatDiv(x, y)}
                           ELSE {DivisionByZeroText}
      [] operator = "^" -> FloatPow(x, y)

\* _explain_calculation
explain_calculation(operator) ==
    CASE operator = "+" -> "Adding num1 and num2"
      [] operator = "-" -> "Subtracting num2 from num1"
      [] operator = "*" -> "Multiplying num1 by num2"
      [] operator = "/" -> "Dividing num1 by num2"
      [] operator = "^" -> "Raising num1 to the power of num2"
      [] OTHER -> "Performing calculation"

Verified == "Calculation verified"
Inconclusive == "Verification inconclusive"

\* num1 ** num2 evaluated again in _verify_calculation: the double that the
\* responder got from the same expression
PowAgain(num1, num2, result) ==
    IF result \in FloatPow(num1, num2) THEN result
    ELSE CHOOSE r \in FloatPow(num1, num2) : TRUE

\* _verify_calculation
verify_calculation(num1, operator, num2, result) ==
    IF result.k = "str" THEN "Cannot verify due to mathematical error"
    ELSE IF operator = "+" /\ AbsDiffBelowTolerance(FloatAdd(num1, num2), result)
    THEN Verified
    ELSE IF operator = "-" /\ AbsDiffBelowTolerance(FloatSub(num1, num2), result)
    THEN Verified
    ELSE IF operator = "*" /\ AbsDiffBelowTolerance(FloatMul(num1, num2), result)
    THEN Verified
    ELSE IF /\ operator = "/" /\ ~IsZero(num2)
            /\ AbsDiffBelowTolerance(FloatDiv(num1, num2), result)
    THEN Verified
    ELSE IF /\ operator = "^"
            /\ AbsDiffBelowTolerance(PowAgain(num1, num2, result), result)
    THEN Verified
    ELSE Inconclusive

\* the texts the responders return, as records of their parts
NoResponse ==
    [generator |-> "", heading |-> "", complexity |-> "",
     num1 |-> NoValue, operator |-> "", num2 |-> NoValue, steps |-> "",
     result |-> NoValue, verification |-> "",
     confidence |-> 0, reasoning |-> GeneralReasoning, timestamp |-> 0,
     element |-> 0]

Advisory ==
    "Advanced Mathematical Processor: ... Please provide specific numerical expressions for precise calculations."

\* the groups that generate_mathematical_response takes from the query, as
\* floats: those of arithmetic_match, else those of percent_match
NoLocals ==
    [kind |-> "", num1 |-> NoValue, operator |-> "", num2 |-> NoValue]
GroupsAsFloats(kind, match) ==
    [kind |-> kind, num1 |-> ParseFloat(match.num1),
     operator |-> match.operator, num2 |-> ParseFloat(match.num2)]
LocalsOf(arithmetic_match, percent_match) ==
    IF arithmetic_match.found THEN GroupsAsFloats("arithmetic", arithmetic_match)
    ELSE IF percent_match.found THEN GroupsAsFloats("percent", percent_match)
    ELSE [NoLocals EXCEPT !.kind = "none"]
MathLocals(query) ==
    LocalsOf(ArithmeticMatch(query), PercentMatch(ToLower(query)))

\* the condition with `if operator in operations:` alone
TakesResultBranchAlways(operator, num2) == operator \in OperatorChars

\* `operator in operations and operator != '/' or (operator == '/' and num2 != 0)`
TakesResultBranch(operator, num2) ==
    (operator \in OperatorChars /\ operator # "/")
        \/ (operator = "/" /\ ~IsZero(num2))

Raised(exception) ==
    [status |-> "raised", error |-> exception.k, response |-> NoResponse]
Returned(response) ==
    [status |-> "returned", error |-> "", response |-> response]

MathResponse == [NoResponse EXCEPT !.generator = "generate_mathematical_response"]

\* the `if arithmetic_match:` block for the floats num1 and num2
ArithmeticResponses(num1, operator, num2) ==
    IF TakesResultBranch(operator, num2)
    THEN {IF IsException(result) THEN Raised(result)
          ELSE Returned(
                  [MathResponse EXCEPT
                     !.heading = "Mathematical Analysis",
                     !.num1 = num1, !.operator = operator, !.num2 = num2,
                     !.steps = explain_calculation(operator),
                     !.result = result,
                     !.verification =
                         verify_calculation(num1, operator, num2, result)])
          : result \in Operations(operator, num1, num2)}
    ELSE {IF IsException(message) THEN Raised(message)
          ELSE Returned([MathResponse EXCEPT
                           !.heading = "Mathematical Error",
                           !.result = message])
          : message \in Operations(operator, num1, num2)}

\* the percentage block with `percent * total` for `(percent / 100) * total`
PercentResponsesUndivided(percent, total) ==
    {Returned([MathResponse EXCEPT
                 !.heading = "Percentage Calculation",
                 !.num1 = percent, !.operator = "%", !.num2 = total,
                 !.result = FloatMul(percent, total)])}

\* the `if percent_match:` block for the floats percent and total
PercentResponses(percent, total) ==
    {Returned([MathResponse EXCEPT
                 !.heading = "Percentage Calculation",
                 !.num1 = percent, !.operator = "%", !.num2 = total,
                 !.result = FloatMul(FloatDiv(percent, Fin(100, 1)), total)])}

\* generate_mathematical_response from the groups it matched on
MathResponses(locals) ==
    IF locals.kind = "arithmetic"
    THEN ArithmeticResponses(locals.num1, locals.operator, locals.num2)
    ELSE IF locals.kind = "percent"
    THEN PercentResponses(locals.num1, locals.num2)
    ELSE {Returned([MathResponse EXCEPT !.heading = Advisory])}

\* generate_mathematical_response: the set of its outcomes, each a returned
\* text or an exception that leaves the function
generate_mathematical_response(query, a) == MathResponses(MathLocals(query))

-----------------------------------------------------------------------------
(* The other responders, process_query and main                            *)

\* the readings of the wall clock that generate_general_response may get
MaxClock == 1
Clock == 0..MaxClock

\* len(creative_elements)
CreativeElements == 5

\* f"{analysis.confidence:.1%}": the confidence in tenths of a percent
Permille(r) == (2000 * r.n + r.d) \div (2 * r.d)

\* the responders that fill a fixed text with analysis.complexity_level
TemplateResponse(generator, heading, result_of_analysis) ==
    [NoResponse EXCEPT !.generator = generator, !.heading = heading,
                       !.complexity = result_of_analysis.complexity_level]

generate_security_response(query, a) ==
    {Returned(TemplateResponse("generate_security_response",
                               "Advanced Security Analysis", a))}
generate_architectural_response(query, a) ==
    {Returned(TemplateResponse("generate_architectural_response",
                               "Enterprise Architecture Design", a))}
generate_optimization_response(query, a) ==
    {Returned(TemplateResponse("generate_optimization_response",
                               "Performance Optimization Strategy", a))}
generate_compliance_response(query, a) ==
    {Returned(TemplateResponse("generate_compliance_response",
                               "Compliance & Governance Framework", a))}
generate_innovation_response(query, a) ==
    {Returned(TemplateResponse("generate_innovation_response",
                               "Innovation & Emerging Technologies", a))}
generate_strategic_response(query, a) ==
    {Returned(TemplateResponse("generate_strategic_response",
                               "Strategic Analysis & Planning", a))}
generate_reasoning_response(query, a) ==
    {Returned(TemplateResponse("generate_reasoning_response",
                               "Advanced Reasoning Analysis", a))}

\* generate_creative_response: random.choice(creative_elements)
generate_creative_response(query, a) ==
    {Returned([TemplateResponse("generate_creative_response",
                                "Creative Innovation Framework", a)
                 EXCEPT !.element = selected_element])
       : selected_element \in 1..CreativeElements}

\* generate_general_response: datetime.datetime.now() is read
generate_general_response(query, a) ==
    {Returned([TemplateResponse("generate_general_response",
                                "Advanced AI Analysis", a)
                 EXCEPT !.confidence = Permille(a.confidence),
                        !.reasoning = a.reasoning,
                        !.timestamp = timestamp])
       : timestamp \in Clock}

\* the dict response_generators of process_query
response_generators ==
    ("MATHEMATICAL"  :> "generate_mathematical_response") @@
    ("SECURITY"      :> "generate_security_response") @@
    ("ARCHITECTURAL" :> "generate_architectural_response") @@
    ("OPTIMIZATION"  :> "generate_optimization_response") @@
    ("COMPLIANCE"    :> "generate_compliance_response") @@
    ("INNOVATION"    :> "generate_innovation_response") @@
    ("STRATEGIC"     :> "generate_strategic_response") @@
    ("REASONING"     :> "generate_reasoning_response") @@
    ("CREATIVE"      :> "generate_creative_response") @@
    ("TECHNICAL"     :> "generate_architectural_response") @@
    ("ETHICAL"       :> "generate_compliance_response") @@
    ("INTEGRATION"   :> "generate_architectural_response") @@
    ("GENERAL"       :> "generate_general_response")

\* the lookup by analysis.query_type.value, a key the dict does not have
DispatchByValue(query_type) == "generate_general_response"

\* response_generators.get(analysis.query_type, self.generate_general_response)
Dispatch(query_type) ==
    IF query_type \in DOMAIN response_generators
    THEN response_generators[query_type]
    ELSE "generate_general_response"

\* generator(query, analysis)
Generate(generator, query, a) ==
    CASE generator = "generate_mathematical_response" ->
             generate_mathematical_response(query, a)
      [] generator = "generate_security_response" ->
             generate_security_response(query, a)
      [] generator = "generate_architectural_response" ->
             generate_architectural_response(query, a)
      [] generator = "generate_optimization_response" ->
             generate_optimization_response(query, a)
      [] generator = "generate_compliance_response" ->
             generate_compliance_response(query, a)
      [] generator = "generate_innovation_response" ->
             generate_innovation_response(query, a)
      [] generator = "generate_strategic_response" ->
             generate_strategic_response(query, a)
      [] generator = "generate_reasoning_response" ->
             generate_reasoning_response(query, a)
      [] generator = "generate_creative_response" ->
             generate_creative_response(query, a)
      [] generator = "generate_general_response" ->
             generate_general_response(query, a)

BlankAdvice ==
    "Advanced AI Agent: Please provide a specific query for intelligent analysis."

NoAnalysis == AnalysisResult("", [n |-> 0, d |-> 1], GeneralReasoning, "")

\* generator(query, analysis), with the groups that the mathematical
\* responder matched on
GenerateWith(generator, query, analyzed) ==
    {[domain_scores |-> analyzed.domain_scores, analysis |-> analyzed.result,
      matched |-> IF generator = "generate_mathematical_response"
                  THEN MathLocals(query) ELSE NoLocals,
      result |-> r] : r \in Generate(generator, query, analyzed.result)}

\* process_query from the point where the analysis is made
Respond(query, analyzed) ==
    GenerateWith(Dispatch(analyzed.result.query_type), query, analyzed)

\* process_query: the set of its outcomes, each with the analysis it made
process_query(query) ==
    IF IsBlank(query)
    THEN {[domain_scores |-> <<>>, analysis |-> NoAnalysis, matched |-> NoLocals,
           result |-> Returned([NoResponse EXCEPT !.heading = BlankAdvice])]}
    ELSE Respond(query, analyze_query(query))

Greeting ==
    <<[prefix |-> "",
       response |-> [NoResponse EXCEPT !.heading =
           "Advanced AI Agent: Ready for sophisticated query processing!"]],
      [prefix |-> "",
       response |-> [NoResponse EXCEPT !.heading = "Capabilities: ..."]]>>

\* main: the set of its outcomes; an exception that nothing catches ends the
\* interpreter with a traceback and exit status 1
main(args) ==
    IF Len(args) > 0
    THEN {[domain_scores |-> p.domain_scores, analysis |-> p.analysis,
           matched |-> p.matched,
           status |-> p.result.status, error |-> p.result.error,
           response |-> p.result.response,
           stdout |-> IF p.result.status = "returned"
                      THEN <<[prefix |-> "Agent: ", response |-> p.result.response]>>
                      ELSE <<>>,
           exit_code |-> IF p.result.status = "returned" THEN 0 ELSE 1]
            : p \in process_query(Join(args))}
    ELSE {[domain_scores |-> <<>>, analysis |-> NoAnalysis,
           matched |-> NoLocals,
           status |-> "returned", error |-> "",
           response |-> NoResponse, stdout |-> Greeting, exit_code |-> 0]}

-----------------------------------------------------------------------------
(* The inputs of the model                                                 *)

\* a word of 101 characters that holds no keyword: longer than MediumQuery,
\* and longer than LongQuery when it is given twice
Filler == [i \in 1..(MediumQuery + 1) |-> "z"]

\* a literal with one digit more than the largest double has
Huge == [i \in 1..(FloatMaxDigits + 1) |-> IF i = 1 THEN "1" ELSE "0"]

\* the command line arguments the model draws from
Vocabulary ==
    {<<>>,
     <<"h","e","l","l","o">>,
     <<"w","h","a","t">>,
     <<"q","u","a","n","t","u","m">>,
     <<"D","e","s","i","g","n"," ","a"," ","s","y","s","t","e","m">>,
     <<"a","r","c","h","i","t","e","c","t","u","r","e">>,
     <<"c","a","l","c","u","l","a","t","e">>,
     <<"r","e","a","l","-","t","i","m","e"," ","f","e","a","t","u","r","e","s">>,
     <<"1","5","%"," ","o","f"," ","2","0","0">>,
     <<"1","5"," ","p","l","u","s"," ","2","7">>,
     \* design a scalable microservices architecture with load balancing
     <<"d","e","s","i","g","n"," ","a"," ","s","c","a","l","a","b","l","e"," ",
       "m","i","c","r","o","s","e","r","v","i","c","e","s"," ",
       "a","r","c","h","i","t","e","c","t","u","r","e"," ","w","i","t","h"," ",
       "l","o","a","d"," ","b","a","l","a","n","c","i","n","g">>,
     Filler}

\* argument lists of at most MaxArgs arguments of Vocabulary
WordArgLists == UNION {[1..n -> Vocabulary] : n \in 0..MaxArgs}

\* argument lists of at most MaxKeywordWords keywords of one domain
KeywordArgLists ==
    UNION {[1..n -> {KnowledgeDomains0[i].keywords[j] :
                        j \in 1..Len(KnowledgeDomains0[i].keywords)}]
             : n \in 1..MaxKeywordWords, i \in 1..Len(KnowledgeDomains0)}

\* the operands and operators of the arithmetic queries
SmallOperands ==
    {<<"0">>, <<"2">>, <<"1","5">>, <<"2","7">>, <<"1","0">>, <<"4","0","0">>,
     <<"2",".","5">>, <<"0",".","0">>}
Operands == SmallOperands \cup {Huge}
WhatIs == <<"w","h","a","t"," ","i","s">>

\* `N op M` as three arguments, alone or after "what is", and as one
\* argument without white space
ArithmeticArgLists ==
    {<<n, <<o>>, m>> : n \in Operands, o \in OperatorChars, m \in Operands}
    \cup
    {<<WhatIs, n, <<o>>, m>> :
        n \in SmallOperands, o \in OperatorChars, m \in SmallOperands}
    \cup
    {<<n \o <<o>> \o m>> :
        n \in SmallOperands, o \in OperatorChars, m \in SmallOperands}

\* `P% of T` and `P percent of T`
PercentArgLists ==
    {<<p \o <<"%">>, OfWord, t>> : p \in Operands, t \in Operands}
    \cup
    {<<p, <<"p","e","r","c","e","n","t">>, OfWord, t>> :
        p \in Operands, t \in Operands}

\* a mathematical keyword before four and before five of the 25 keywords
\* of architecture: scores below and at the threshold of 0.2
ThresholdArgLists ==
    {<<<<"c","a","l","c","u","l","a","t","e">>, <<"s","c","a","l","a","b","l","e">>, <<"m","i","c","r","o","s","e","r","v","i","c","e","s">>,
       <<"d","a","t","a","b","a","s","e">>, <<"a","p","i">>>>,
     <<<<"c","a","l","c","u","l","a","t","e">>, <<"s","c","a","l","a","b","l","e">>, <<"m","i","c","r","o","s","e","r","v","i","c","e","s">>,
       <<"d","a","t","a","b","a","s","e">>, <<"a","p","i">>,
       <<"c","l","o","u","d">>>>}

ArgLists ==
    WordArgLists \cup KeywordArgLists \cup ArithmeticArgLists
        \cup PercentArgLists \cup ThresholdArgLists

-----------------------------------------------------------------------------
(* The calls on the agent                                                  *)

NoCall == [op |-> "", query |-> <<>>]
NoExit == -1
NoOutcome ==
    [status |-> "", error |-> "", response |-> NoResponse, stdout |-> <<>>,
     exit_code |-> NoExit]

\* analyze_query with a keyword loop that pops the keywords it has matched
\* from the table
DoAnalyzeQueryPopping(query) ==
    /\ call' = [op |-> "analyze_query", query |-> query]
    /\ LET analyzed == analyze_query(query)
       IN  /\ domain_scores' = analyzed.domain_scores
           /\ analysis' = analyzed.result
    /\ matched' = NoLocals
    /\ outcome' = NoOutcome
    /\ knowledge_domains' =
           [i \in 1..Len(knowledge_domains) |->
              [knowledge_domains[i] EXCEPT !.keywords =
                  SelectSeq(@, LAMBDA keyword :
                                  ~Contains(ToLower(query), keyword))]]
    /\ UNCHANGED <<query_patterns, complexity_indicators>>

\* agent.analyze_query(query)
DoAnalyzeQuery(query) ==
    /\ call' = [op |-> "analyze_query", query |-> query]
    /\ LET analyzed == analyze_query(query)
       IN  /\ domain_scores' = analyzed.domain_scores
           /\ analysis' = analyzed.result
    /\ matched' = NoLocals
    /\ outcome' = NoOutcome
    /\ UNCHANGED <<knowledge_domains, query_patterns, complexity_indicators>>

\* agent.process_query(query)
DoProcessQuery(query) ==
    \E p \in process_query(query) :
        /\ call' = [op |-> "process_query", query |-> query]
        /\ domain_scores' = p.domain_scores
        /\ analysis' = p.analysis
        /\ matched' = p.matched
        /\ outcome' = [status |-> p.result.status, error |-> p.result.error,
                       response |-> p.result.response, stdout |-> <<>>,
                       exit_code |-> NoExit]
        /\ UNCHANGED <<knowledge_domains, query_patterns, complexity_indicators>>

\* main() run with sys.argv[1:] = args
DoMain(args) ==
    \E m \in main(args) :
        /\ call' = [op |-> "main", query |-> Join(args)]
        /\ domain_scores' = m.domain_scores
        /\ analysis' = m.analysis
        /\ matched' = m.matched
        /\ outcome' = [status |-> m.status, error |-> m.error,
                       response |-> m.response, stdout |-> m.stdout,
                       exit_code |-> m.exit_code]
        /\ UNCHANGED <<knowledge_domains, query_patterns, complexity_indicators>>

-----------------------------------------------------------------------------
(* Spec: one call on a freshly built agent, for every input                *)

Init ==
    /\ knowledge_domains = KnowledgeDomains0
    /\ query_patterns = QueryPatterns0
    /\ complexity_indicators = ComplexityIndicators0
    /\ argv \in ArgLists
    /\ pc = "ready"
    /\ call = NoCall
    /\ domain_scores = <<>>
    /\ analysis = NoAnalysis
    /\ matched = NoLocals
    /\ outcome = NoOutcome
    /\ seen = <<>>

AnalyzeQueryStep ==
    /\ pc = "ready"
    /\ DoAnalyzeQuery(Join(argv))
    /\ pc' = "done"
    /\ UNCHANGED <<argv, seen>>

ProcessQueryStep ==
    /\ pc = "ready"
    /\ DoProcessQuery(Join(argv))
    /\ pc' = "done"
    /\ UNCHANGED <<argv, seen>>

MainStep ==
    /\ pc = "ready"
    /\ DoMain(argv)
    /\ pc' = "done"
    /\ UNCHANGED <<argv, seen>>

Next == AnalyzeQueryStep \/ ProcessQueryStep \/ MainStep

Spec == Init /\ [][Next]_vars

-----------------------------------------------------------------------------
(* SpecRepeat: any number of calls, in any order, on one agent             *)

\* the queries of the repeated calls
RepeatQueries ==
    {<<>>,
     <<"h","e","l","l","o">>,
     <<"q","u","a","n","t","u","m">>,
     <<"D","e","s","i","g","n"," ","a"," ","s","y","s","t","e","m">>,
     <<"c","a","l","c","u","l","a","t","e">>,
     <<"1","5","%"," ","o","f"," ","2","0","0">>}

\* seen after analyze_query(query) returned result: the result of the first
\* call on each of the first MaxSeen queries, and whether it was called again
Remember(query, result) ==
    IF query \in DOMAIN seen
    THEN [seen EXCEPT ![query].again = TRUE]
    ELSE IF Cardinality(DOMAIN seen) < MaxSeen
    THEN seen @@ (query :> [first |-> result, again |-> FALSE])
    ELSE seen

InitRepeat ==
    /\ knowledge_domains = KnowledgeDomains0
    /\ query_patterns = QueryPatterns0
    /\ complexity_indicators = ComplexityIndicators0
    /\ argv = <<>>
    /\ pc = "agent"
    /\ call = NoCall
    /\ domain_scores = <<>>
    /\ analysis = NoAnalysis
    /\ matched = NoLocals
    /\ outcome = NoOutcome
    /\ seen = <<>>

RepeatAnalyze ==
    \E query \in RepeatQueries :
        /\ DoAnalyzeQuery(query)
        /\ seen' = Remember(query, analysis')
        /\ UNCHANGED <<argv, pc>>

RepeatProcess ==
    \E query \in RepeatQueries :
        /\ DoProcessQuery(query)
        /\ UNCHANGED <<argv, pc, seen>>

NextRepeat == RepeatAnalyze \/ RepeatProcess

SpecRepeat == InitRepeat /\ [][NextRepeat]_vars

-----------------------------------------------------------------------------
(* The properties                                                          *)

Zero == [n |-> 0, d |-> 1]

\* the last call analysed call.query
Analyzed == analysis.query_type # ""

\* C1: the confidence of every analysis result is greater than 0 and at most
\* 0.95: it is 0.95 on the mathematical branches, 0.7 on the general
\* fallback, and min(0.95, 2 * max_score) with max_score > 0 on the domain
\* branch.
C1_ConfidenceRange ==
    Analyzed =>
        /\ RatLt(Zero, analysis.confidence)
        /\ ~RatLt([n |-> 19, d |-> 20], analysis.confidence)
        /\ analysis.query_type = "MATHEMATICAL" =>
               analysis.confidence = [n |-> 19, d |-> 20]
        /\ analysis.query_type = "GENERAL" =>
               analysis.confidence = [n |-> 7, d |-> 10]
        /\ analysis.query_type \notin {"MATHEMATICAL", "GENERAL"} =>
               LET max_score == PrimaryDomain(domain_scores).score
               IN  /\ RatLt(Zero, max_score)
                   /\ analysis.confidence =
                         IF 40 * max_score.n > 19 * max_score.d
                         THEN [n |-> 19, d |-> 20]
                         ELSE Rat(2 * max_score.n, max_score.d)

\* a domain result whose doubled score exceeds the cap
C1_Witness ==
    /\ call.op = "analyze_query"
    /\ analysis.query_type = "ARCHITECTURAL"
    /\ analysis.confidence = [n |-> 19, d |-> 20]
    /\ LET max_score == PrimaryDomain(domain_scores).score
       IN  40 * max_score.n > 19 * max_score.d

\* C2: no call raises an exception, and main ends with exit status 0.
C2_NeverRaises ==
    /\ outcome.status # "raised"
    /\ call.op = "main" => outcome.exit_code = 0

\* the query in lower case, as a tuple
Lowered(query) == SubSeq(ToLower(query), 1, Len(query))

\* w is a substring of q, a query in lower case
OccursLowered(q, w) ==
    \E p \in 1..(Len(q) - Len(w) + 1) : SubSeq(q, p, p + Len(w) - 1) = w

\* the query hits no keyword, no pattern and not the mathematical detector
Unmatched(query) ==
    \A q \in {Lowered(query)} :
        /\ \A i \in 1..Len(knowledge_domains) :
              \A j \in 1..Len(knowledge_domains[i].keywords) :
                 ~OccursLowered(q, knowledge_domains[i].keywords[j])
        /\ \A i \in 1..Len(query_patterns) :
              \A j \in 1..Len(query_patterns[i].patterns) :
                 ~SearchDotStar(q, query_patterns[i].patterns[j].head,
                                query_patterns[i].patterns[j].tail)
        /\ ~is_mathematical(query)

\* C3: analyze_query on the empty string, on a string of white space and on
\* any query that hits no keyword, no pattern and not the mathematical
\* detector returns GENERAL with confidence 0.7.
C3_GeneralFallback ==
    (call.op = "analyze_query" /\ (IsBlank(call.query) \/ Unmatched(call.query)))
        => /\ analysis.query_type = "GENERAL"
           /\ analysis.confidence = [n |-> 7, d |-> 10]

\* analyze_query returned for a query of white space only
C3_Witness ==
    /\ call.op = "analyze_query"
    /\ call.query = <<" ">>
    /\ analysis.query_type = "GENERAL"
    /\ analysis.confidence = [n |-> 7, d |-> 10]

\* every argument of the call is a keyword of the i-th domain
OnlyKeywordsOf(i) ==
    /\ Len(argv) > 0
    /\ \A k \in 1..Len(argv) :
          \E j \in 1..Len(KnowledgeDomains0[i].keywords) :
             argv[k] = KnowledgeDomains0[i].keywords[j]

\* the query type that stands for each domain
ExpectedType ==
    ("security" :> "SECURITY") @@ ("architecture" :> "ARCHITECTURAL") @@
    ("optimization" :> "OPTIMIZATION") @@ ("compliance" :> "COMPLIANCE") @@
    ("innovation" :> "INNOVATION") @@ ("business" :> "STRATEGIC")

\* domain has a score greater than 0
Scored(domain) ==
    \E k \in 1..Len(domain_scores) :
        /\ domain_scores[k].domain = domain
        /\ RatLt(Zero, domain_scores[k].score)

\* domain has a score that is greater than the score of every other domain
Leads(domain) ==
    \E k \in 1..Len(domain_scores) :
        /\ domain_scores[k].domain = domain
        /\ \A m \in 1..Len(domain_scores) :
              m # k => RatLt(domain_scores[m].score, domain_scores[k].score)

\* the highest score is below 0.2 and the mathematical detector matches
MathOverride ==
    /\ \A k \in 1..Len(domain_scores) :
          RatLt(domain_scores[k].score, [n |-> 1, d |-> 5])
    /\ is_mathematical(call.query)

\* what the code does give a query made only of keywords of a domain D: a
\* score greater than 0 for D and a query type other than GENERAL, which is
\* the one of D when D's score is greater than every other domain's and the
\* mathematical override (highest score below 0.2, detector matches) does
\* not apply
KeywordQueryLeads ==
    \A i \in 1..Len(KnowledgeDomains0) :
        (Analyzed /\ OnlyKeywordsOf(i)) =>
            /\ Scored(KnowledgeDomains0[i].domain)
            /\ analysis.query_type # "GENERAL"
            /\ (Leads(KnowledgeDomains0[i].domain) /\ ~MathOverride) =>
                   analysis.query_type = ExpectedType[KnowledgeDomains0[i].domain]

\* a query of business keywords, with business ahead, is STRATEGIC
KeywordQueryLeadsSeen ==
    \E i \in 1..Len(KnowledgeDomains0) :
        /\ Analyzed
        /\ OnlyKeywordsOf(i)
        /\ KnowledgeDomains0[i].domain = "business"
        /\ Leads("business")
        /\ ~MathOverride
        /\ analysis.query_type = "STRATEGIC"

\* C4: every non-empty query made only of keywords of a domain D has the
\* query type of D and a score greater than 0 for D.
C4_KeywordQuery ==
    \A i \in 1..Len(KnowledgeDomains0) :
        (Analyzed /\ OnlyKeywordsOf(i)) =>
            /\ Scored(KnowledgeDomains0[i].domain)
            /\ analysis.query_type = ExpectedType[KnowledgeDomains0[i].domain]

\* the mathematical responder took 'N op M' from the query, the divisor not
\* being zero
ArithmeticCase ==
    /\ matched.kind = "arithmetic"
    /\ ~(matched.operator = "/" /\ IsZero(matched.num2))

\* N op M for operands and results that are tracked exactly
DirectEvaluation(x, operator, y) ==
    CASE operator = "+" -> Rat(x.n * y.d + y.n * x.d, x.d * y.d)
      [] operator = "-" -> Rat(x.n * y.d - y.n * x.d, x.d * y.d)
      [] operator = "*" -> Rat(x.n * y.n, x.d * y.d)
      [] operator = "/" -> Rat(x.n * y.d, x.d * y.n)

\* C5: whenever the first arithmetic match is 'N op M', with M not zero for a
\* division, the responder returns a finite Result, equal to N op M, and the
\* Verification line is the verified one.
C5_ArithmeticVerified ==
    ArithmeticCase =>
        /\ outcome.status = "returned"
        /\ outcome.response.heading = "Mathematical Analysis"
        /\ outcome.response.result.k \in {"fin", "finite"}
        /\ (/\ matched.operator # "^"
            /\ matched.num1.k = "fin" /\ matched.num2.k = "fin"
            /\ outcome.response.result.k = "fin") =>
               LET direct == DirectEvaluation(matched.num1, matched.operator,
                                              matched.num2)
               IN  /\ outcome.response.result.n = direct.n
                   /\ outcome.response.result.d = direct.d
        /\ outcome.response.verification = Verified

\* the first arithmetic match is a division by zero
DivisionByZeroCase ==
    /\ matched.kind = "arithmetic"
    /\ matched.operator = "/"
    /\ IsZero(matched.num2)

\* C6: when the first arithmetic match is 'N / 0' the responder returns,
\* without raising, the text with "undefined (division by zero)", and no
\* Result, step or Verification line.
C6_DivisionByZero ==
    DivisionByZeroCase =>
        /\ outcome.status = "returned"
        /\ outcome.response.heading = "Mathematical Error"
        /\ outcome.response.result = DivisionByZeroText
        /\ outcome.response.steps = ""
        /\ outcome.response.verification = ""
        /\ call.op = "main" => outcome.exit_code = 0

\* process_query answered a division of 15 by zero
C6_Witness ==
    /\ call.op = "process_query"
    /\ DivisionByZeroCase
    /\ matched.num1 = Fin(15, 1)
    /\ outcome.status = "returned"
    /\ outcome.response.result = DivisionByZeroText

\* C7: the mathematical responder returns the advisory text for the queries
\* in which it finds neither an arithmetic nor a percentage expression; for
\* a division by zero it returns the Mathematical Error text, which is not
\* the advisory.
C7_Advisory ==
    /\ matched.kind = "none" =>
          /\ outcome.status = "returned"
          /\ outcome.response.heading = Advisory
    /\ DivisionByZeroCase =>
          /\ outcome.status = "returned"
          /\ outcome.response.heading = "Mathematical Error"
          /\ outcome.response.heading # Advisory

\* the mathematical responder found no expression in a query that the
\* detector took for mathematical
C7_Witness ==
    /\ call.op = "process_query"
    /\ analysis.query_type = "MATHEMATICAL"
    /\ matched.kind = "none"
    /\ outcome.response.heading = Advisory

\* C7 as stated: unparseable queries and divisions by zero all get the
\* advisory text.
C7_AsStated ==
    (matched.kind = "none" \/ DivisionByZeroCase) =>
        /\ outcome.status = "returned"
        /\ outcome.response.heading = Advisory

\* an indicator word of level is a substring of the lowercased query
HasLevelWord(query, level) ==
    \E i \in 1..Len(ComplexityIndicators0[level]) :
        LET w == ComplexityIndicators0[level][i]
        IN  \E p \in 1..(Len(query) - Len(w) + 1) :
               \A k \in 1..Len(w) : LowerChar(query[p + k - 1]) = w[k]

\* the first level, from expert down, with a word in the query, else the
\* level that the length of the query gives
ExpectedLevel(query) ==
    IF HasLevelWord(query, "expert") THEN "expert"
    ELSE IF HasLevelWord(query, "advanced") THEN "advanced"
    ELSE IF HasLevelWord(query, "intermediate") THEN "intermediate"
    ELSE IF HasLevelWord(query, "basic") THEN "basic"
    ELSE IF Len(query) > 200 THEN "advanced"
    ELSE IF Len(query) > 100 THEN "intermediate"
    ELSE "basic"

\* C8: the complexity level of every analysis result, whatever its query
\* type, is the first level in the order expert, advanced, intermediate,
\* basic with an indicator word in the lowercased query, and without such a
\* word advanced above 200 characters, intermediate above 100, else basic.
C8_ComplexityLevel ==
    Analyzed => analysis.complexity_level = ExpectedLevel(call.query)

\* a query with the basic word "what" and the expert word "quantum"
C8_Witness ==
    /\ call.op = "analyze_query"
    /\ HasLevelWord(call.query, "basic")
    /\ HasLevelWord(call.query, "expert")
    /\ analysis.complexity_level = "expert"

\* C9: analyze_query called again on a query, after any other calls on the
\* agent, returns the result of its first call, and no call changes the
\* keyword, pattern and complexity tables.
C9_Idempotent ==
    /\ knowledge_domains = KnowledgeDomains0
    /\ query_patterns = QueryPatterns0
    /\ complexity_indicators = ComplexityIndicators0
    /\ (call.op = "analyze_query" /\ call.query \in DOMAIN seen) =>
           analysis = seen[call.query].first

\* analyze_query was called again on a query that scores a domain
C9_Witness ==
    /\ call.op = "analyze_query"
    /\ call.query \in DOMAIN seen
    /\ seen[call.query].again
    /\ analysis.query_type = "ARCHITECTURAL"
    /\ analysis = seen[call.query].first

\* the responder's call returned a text for an analysed query
Responded ==
    /\ call.op \in {"process_query", "main"}
    /\ Analyzed
    /\ outcome.status = "returned"

\* C10: response_generators has one generator for every query type, the
\* general one for GENERAL; a type it lacks gets the general one; the text
\* returned for a non-blank query is made by the generator of the type that
\* analyze_query returned.
C10_Dispatch ==
    /\ DOMAIN response_generators = QueryType
    /\ \A t \in QueryType : Dispatch(t) = response_generators[t]
    /\ response_generators["GENERAL"] = "generate_general_response"
    /\ Dispatch("UNKNOWN") = "generate_general_response"
    /\ Responded =>
          outcome.response.generator = response_generators[analysis.query_type]

\* a security query answered by the security responder
C10_Witness ==
    /\ Responded
    /\ analysis.query_type = "SECURITY"
    /\ outcome.response.generator = "generate_security_response"

\* the P and the T of an argument list of PercentArgLists
PercentOf(args) ==
    IF Len(args) = 3 THEN SubSeq(args[1], 1, Len(args[1]) - 1) ELSE args[1]
TotalOf(args) == args[Len(args)]

\* (p / 100) * t as Python evaluates it on the floats p and t: exact where
\* the model tracks the value, inf or nan when an operand is inf
ExpectedPercentage(p, t) ==
    CASE p.k = "fin" /\ t.k = "fin" ->
            LET r == Rat(p.n * t.n, p.d * t.d * 100)
            IN  IF r.n > MaxTracked \/ r.d > MaxTracked THEN FinU
                ELSE [k |-> "fin", n |-> r.n, d |-> r.d]
      [] p.k = "inf" /\ t.k = "fin" -> IF t.n = 0 THEN NaN ELSE Inf
      [] p.k = "fin" /\ t.k = "inf" -> IF p.n = 0 THEN NaN ELSE Inf
      [] p.k = "inf" /\ t.k = "inf" -> Inf

ScalableQuery ==
    <<"d","e","s","i","g","n"," ","a"," ","s","c","a","l","a","b","l","e"," ",
      "m","i","c","r","o","s","e","r","v","i","c","e","s"," ",
      "a","r","c","h","i","t","e","c","t","u","r","e"," ","w","i","t","h"," ",
      "l","o","a","d"," ","b","a","l","a","n","c","i","n","g">>

\* no domain has a higher score than the k-th item of domain_scores
HasMaximum(k) ==
    \A m \in 1..Len(domain_scores) :
        ~RatLt(domain_scores[k].score, domain_scores[m].score)

\* min(0.95, 2 * score)
TwiceCapped(score) ==
    IF 40 * score.n > 19 * score.d THEN [n |-> 19, d |-> 20]
    ELSE Rat(2 * score.n, score.d)

\* C12: when some domain has a score and the mathematical override does not
\* apply, the result has the query type of a domain with the maximum score
\* and the confidence min(0.95, 2 * that score); the scalable microservices
\* query is ARCHITECTURAL with a confidence above 0.2 and complexity
\* intermediate or advanced.
C12_WinningDomain ==
    /\ (Analyzed /\ Len(domain_scores) > 0 /\ ~MathOverride) =>
          \E k \in 1..Len(domain_scores) :
              /\ HasMaximum(k)
              /\ RatLt(Zero, domain_scores[k].score)
              /\ analysis.query_type = ExpectedType[domain_scores[k].domain]
              /\ analysis.confidence = TwiceCapped(domain_scores[k].score)
    /\ (Analyzed /\ call.query = ScalableQuery) =>
          /\ analysis.query_type = "ARCHITECTURAL"
          /\ RatLt([n |-> 1, d |-> 5], analysis.confidence)
          /\ analysis.complexity_level \in {"intermediate", "advanced"}

\* analyze_query returned for the scalable microservices query
C12_Witness ==
    /\ call.op = "analyze_query"
    /\ call.query = ScalableQuery
    /\ Len(domain_scores) > 1
    /\ ~MathOverride
    /\ analysis.query_type = "ARCHITECTURAL"
    /\ analysis.complexity_level = "advanced"

\* the number of keywords of the i-th domain that occur in q
HitsOf(i, q) ==
    Cardinality({j \in 1..Len(KnowledgeDomains0[i].keywords) :
                    OccursLowered(q, KnowledgeDomains0[i].keywords[j])})

\* the number of patterns of domain that match q
MatchesOf(domain, q) ==
    Cardinality({<<i, j>> \in (1..Len(QueryPatterns0)) \X (1..7) :
                    /\ QueryPatterns0[i].domain = domain
                    /\ j <= Len(QueryPatterns0[i].patterns)
                    /\ SearchDotStar(q,
                                     QueryPatterns0[i].patterns[j].head,
                                     QueryPatterns0[i].patterns[j].tail)})

\* hits / (size of the keyword list) + 0.3 * matches
ExpectedScore(i, q) ==
    RatAdd(Rat(HitsOf(i, q), Len(KnowledgeDomains0[i].keywords)),
           Rat(3 * MatchesOf(KnowledgeDomains0[i].domain, q), 10))

\* the score that domain_scores holds for domain, 0 when it holds none
ScoreOf(domain) ==
    IF \E k \in 1..Len(domain_scores) : domain_scores[k].domain = domain
    THEN domain_scores[CHOOSE k \in 1..Len(domain_scores) :
                           domain_scores[k].domain = domain].score
    ELSE Zero

\* the index in the domain table of the k-th item of domain_scores
TableIndex(k) ==
    CHOOSE i \in 1..Len(KnowledgeDomains0) :
        KnowledgeDomains0[i].domain = domain_scores[k].domain

\* the k-th and the m-th item of domain_scores have the same number of
\* keyword hits in q and no pattern match, the k-th with the shorter
\* keyword list
SameHitsShorterList(k, m, q) ==
    /\ Len(KnowledgeDomains0[TableIndex(k)].keywords)
          < Len(KnowledgeDomains0[TableIndex(m)].keywords)
    /\ MatchesOf(domain_scores[k].domain, q) = 0
    /\ MatchesOf(domain_scores[m].domain, q) = 0
    /\ HitsOf(TableIndex(k), q) = HitsOf(TableIndex(m), q)

\* C13: the score of every domain is the number of its keywords that occur
\* in the lowercased query, divided by the size of its keyword list, plus
\* 0.3 for each of its patterns that matches; domain_scores holds the
\* domains whose score is not 0; of two domains with the same number of hits
\* and no pattern match the one with the shorter list scores higher.
C13_Scores ==
    Analyzed =>
        \A q \in {Lowered(call.query)} :
            /\ \A i \in 1..Len(KnowledgeDomains0) :
                  ScoreOf(KnowledgeDomains0[i].domain) = ExpectedScore(i, q)
            /\ \A k \in 1..Len(domain_scores) :
                  /\ RatLt(Zero, domain_scores[k].score)
                  /\ \A m \in 1..Len(domain_scores) :
                        /\ (m # k) =>
                              domain_scores[m].domain # domain_scores[k].domain
                        /\ (m # k /\ SameHitsShorterList(k, m, q)) =>
                              RatLt(domain_scores[m].score,
                                    domain_scores[k].score)

\* "real-time features architecture": a keyword hit and a pattern match for
\* architecture, one hit each and no pattern match for compliance, with 18
\* keywords, and innovation, with 19
C13_Witness ==
    /\ call.op = "analyze_query"
    /\ ScoreOf("architecture") = [n |-> 17, d |-> 50]
    /\ ScoreOf("compliance") = [n |-> 1, d |-> 18]
    /\ ScoreOf("innovation") = [n |-> 1, d |-> 19]
    /\ ScoreOf("security") = Zero
    /\ \E k, m \in 1..Len(domain_scores) :
          SameHitsShorterList(k, m, Lowered(call.query))

\* the items of domain_scores that hold the maximum score
Tied == {k \in 1..Len(domain_scores) : HasMaximum(k)}

\* the item of Tied whose domain comes first in the domain table
FirstDeclared ==
    CHOOSE k \in Tied : \A m \in Tied : TableIndex(k) <= TableIndex(m)

\* C14: when two or more domains share the maximum score and the
\* mathematical override does not apply, the result is for the tied domain
\* that comes first in the domain table, also when a tied domain has no
\* keyword hit.
C14_TieOrder ==
    (Analyzed /\ Cardinality(Tied) >= 2 /\ ~MathOverride) =>
        /\ analysis.reasoning.domain = domain_scores[FirstDeclared].domain
        /\ analysis.query_type =
              ExpectedType[domain_scores[FirstDeclared].domain]

\* optimization and innovation tied: "parallel" holds the innovation
\* keyword "ar", and both lists have 19 keywords
C14_Witness ==
    /\ call.op = "analyze_query"
    /\ Cardinality(Tied) >= 2
    /\ ~MathOverride
    /\ ScoreOf("optimization") = ScoreOf("innovation")
    /\ analysis.query_type = "OPTIMIZATION"

\* C15: the result is MATHEMATICAL, always with confidence 0.95, exactly when
\* the mathematical detector matches and no domain scored or the maximum
\* score is below 0.2; with a maximum score of 0.2 or more the result is the
\* domain's, whatever the detector says.
C15_MathematicalOverride ==
    Analyzed =>
        /\ (analysis.query_type = "MATHEMATICAL") <=> MathOverride
        /\ analysis.query_type = "MATHEMATICAL" =>
              analysis.confidence = [n |-> 19, d |-> 20]
        /\ (\E k \in 1..Len(domain_scores) :
               ~RatLt(domain_scores[k].score, [n |-> 1, d |-> 5])) =>
              /\ analysis.query_type \notin {"MATHEMATICAL", "GENERAL"}
              /\ analysis.reasoning.domain \in
                    {domain_scores[k].domain : k \in Tied}

\* a query with "calculate" and an architecture score of exactly 0.2 keeps
\* the domain's classification
C15_Witness ==
    /\ call.op = "analyze_query"
    /\ is_mathematical(call.query)
    /\ ScoreOf("architecture") = [n |-> 1, d |-> 5]
    /\ Cardinality(Tied) = 1
    /\ analysis.query_type = "ARCHITECTURAL"

\* the query types that analyze_query can return
ReturnedTypes ==
    {"MATHEMATICAL", "SECURITY", "ARCHITECTURAL", "OPTIMIZATION",
     "COMPLIANCE", "INNOVATION", "STRATEGIC", "GENERAL"}

\* C16: the type of every analysis result is MATHEMATICAL, SECURITY,
\* ARCHITECTURAL, OPTIMIZATION, COMPLIANCE, INNOVATION, STRATEGIC or GENERAL,
\* never REASONING, CREATIVE, TECHNICAL, ETHICAL or INTEGRATION; no response
\* comes from the reasoning or the creative responder, and the type that is
\* dispatched on is always a key of response_generators.
C16_ReturnedTypes ==
    /\ Analyzed =>
          /\ analysis.query_type \in ReturnedTypes
          /\ analysis.query_type \notin
                {"REASONING", "CREATIVE", "TECHNICAL", "ETHICAL", "INTEGRATION"}
          /\ analysis.query_type \in DOMAIN response_generators
    /\ outcome.response.generator \notin
          {"generate_reasoning_response", "generate_creative_response"}
    /\ Responded =>
          outcome.response.generator \in
             {response_generators[t] : t \in ReturnedTypes}

\* process_query answered an innovation query with the innovation responder
C16_Witness ==
    /\ call.op = "process_query"
    /\ Responded
    /\ analysis.query_type = "INNOVATION"
    /\ outcome.response.generator = "generate_innovation_response"

=============================================================================
